---- MODULE Spec2Model ----
(***************************************************************************)
(* Model of the asynchronous CV evaluation pipeline of cv-reader:          *)
(*   - the circuit breaker (app/services/circuit_breaker.py),              *)
(*   - the text extractor (app/services/cv_parser.py),                     *)
(*   - the AI client and its response parser (app/services/ai_client.py),  *)
(*   - the orchestrator (app/services/evaluation_service.py),              *)
(*   - the Celery task evaluate_cv_task (app/tasks.py) and the submission  *)
(*     path that enqueues it (app/serializers.py).                         *)
(*                                                                         *)
(* The specifications are defined over the same variables:                 *)
(*   SpecCB      - concurrent callers of one CircuitBreaker instance;      *)
(*   SpecExtract - CVParserService.extract_text on one document;           *)
(*   SpecClient  - the AI client's evaluation of one HTTP outcome;         *)
(*   Spec        - the job pipeline, every task message delivered once;    *)
(*   SpecDup     - Spec plus a broker that may deliver a message twice;    *)
(*   SpecLive    - the pipeline of Spec under fair execution.              *)
(***************************************************************************)
EXTENDS Integers, Sequences, FiniteSets, TLC

VARIABLES
    cb,          \* the process-wide breaker: state and counters
    now,         \* time.time(), in seconds
    caller,      \* SpecCB: position of each thread inside CircuitBreaker.call
    failRun,     \* history: failed calls recorded since the last successful one
    hoRun,       \* history: successful calls recorded since Half-Open was entered
    jobs,        \* the cv_evaluation_requests collection
    queue,       \* task messages held by the broker
    worker,      \* position of each worker slot inside evaluate_cv_task
    attempts,    \* history: per job, its task requests and finished attempts
    dups,        \* SpecDup: number of duplicate deliveries so far
    probe        \* the latest call of an operation: its input and what it gave

vars == <<cb, now, caller, failRun, hoRun, jobs, queue, worker, attempts, dups, probe>>

cbVars == <<cb, caller, failRun, hoRun>>
jobVars == <<jobs, queue, worker, attempts, dups, probe>>

(***************************************************************************)
(* Bounds of the model.                                                    *)
(***************************************************************************)
NumCallers == 2
MaxTimeCB == 180
TickStep == 60

Callers == 1..NumCallers

\* No operation has been called yet; a call with its input, before and
\* after it has returned.
NoProbe == [fn |-> "", input |-> <<>>, done |-> FALSE, output |-> <<>>]
Called(fn, input) == [fn |-> fn, input |-> input, done |-> FALSE, output |-> <<>>]

(***************************************************************************)
(* Circuit breaker: app/services/circuit_breaker.py                        *)
(***************************************************************************)
CLOSED == "closed"
OPEN == "open"
HALF_OPEN == "half_open"

failure_threshold == 5
recovery_timeout == 60
success_threshold == 3

\* self._last_failure_time = None
NoTime == -1

\* CircuitBreaker.__init__
NewBreaker ==
    [state |-> CLOSED, failure_count |-> 0, success_count |-> 0,
     last_failure_time |-> NoTime]

\* CircuitBreaker._should_attempt_reset
ShouldAttemptReset(b, t) ==
    IF b.last_failure_time = NoTime
    THEN FALSE
    ELSE t - b.last_failure_time >= recovery_timeout

\* _on_success that closes the breaker without resetting success_count
OnSuccessKeepsCount(b) ==
    LET b1 == [b EXCEPT !.failure_count = 0]
    IN  IF b1.state = HALF_OPEN
        THEN LET b2 == [b1 EXCEPT !.success_count = @ + 1]
             IN  IF b2.success_count >= success_threshold
                 THEN [b2 EXCEPT !.state = CLOSED]
                 ELSE b2
        ELSE b1

\* _on_success that closes a Half-Open breaker on any success
OnSuccessClosesAtOnce(b) ==
    LET b1 == [b EXCEPT !.failure_count = 0]
    IN  IF b1.state = HALF_OPEN
        THEN [b1 EXCEPT !.state = CLOSED, !.success_count = 0]
        ELSE b1

\* _on_success that counts the success in whatever state the breaker is
OnSuccessCountsEverywhere(b) ==
    LET b2 == [b EXCEPT !.failure_count = 0, !.success_count = @ + 1]
    IN  IF b2.state = HALF_OPEN /\ b2.success_count >= success_threshold
        THEN [b2 EXCEPT !.state = CLOSED, !.success_count = 0]
        ELSE b2

\* _on_success that closes the breaker when it finds it Open
OnSuccessClosesFromOpen(b) ==
    LET b1 == [b EXCEPT !.failure_count = 0]
    IN  IF b1.state = OPEN
        THEN [b1 EXCEPT !.state = CLOSED]
        ELSE IF b1.state = HALF_OPEN
        THEN LET b2 == [b1 EXCEPT !.success_count = @ + 1]
             IN  IF b2.success_count >= success_threshold
                 THEN [b2 EXCEPT !.state = CLOSED, !.success_count = 0]
                 ELSE b2
        ELSE b1

\* CircuitBreaker._on_success
OnSuccess(b) ==
    LET b1 == [b EXCEPT !.failure_count = 0]
    IN  IF b1.state = HALF_OPEN
        THEN LET b2 == [b1 EXCEPT !.success_count = @ + 1]
             IN  IF b2.success_count >= success_threshold
                 THEN [b2 EXCEPT !.state = CLOSED, !.success_count = 0]
                 ELSE b2
        ELSE b1

\* _on_failure that opens only above the threshold (> for >=)
OnFailureAboveThreshold(b, t) ==
    LET b1 == [b EXCEPT !.failure_count = @ + 1,
                        !.last_failure_time = t,
                        !.success_count = 0]
    IN  IF b1.state = HALF_OPEN
        THEN [b1 EXCEPT !.state = OPEN]
        ELSE IF b1.failure_count > failure_threshold
             THEN [b1 EXCEPT !.state = OPEN]
             ELSE b1

\* _on_failure that reopens from Half-Open before touching the counters
OnFailureKeepsSuccesses(b, t) ==
    IF b.state = HALF_OPEN
    THEN [b EXCEPT !.state = OPEN, !.failure_count = @ + 1, !.last_failure_time = t]
    ELSE LET b1 == [b EXCEPT !.failure_count = @ + 1,
                             !.last_failure_time = t,
                             !.success_count = 0]
         IN  IF b1.failure_count >= failure_threshold
             THEN [b1 EXCEPT !.state = OPEN]
             ELSE b1

\* _on_failure that returns at once when the breaker is already Open
OnFailureIgnoredWhenOpen(b, t) ==
    IF b.state = OPEN
    THEN b
    ELSE LET b1 == [b EXCEPT !.failure_count = @ + 1,
                             !.last_failure_time = t,
                             !.success_count = 0]
         IN  IF b1.state = HALF_OPEN
             THEN [b1 EXCEPT !.state = OPEN]
             ELSE IF b1.failure_count >= failure_threshold
                  THEN [b1 EXCEPT !.state = OPEN]
                  ELSE b1

\* CircuitBreaker._on_failure
OnFailure(b, t) ==
    LET b1 == [b EXCEPT !.failure_count = @ + 1,
                        !.last_failure_time = t,
                        !.success_count = 0]
    IN  IF b1.state = HALF_OPEN
        THEN [b1 EXCEPT !.state = OPEN]
        ELSE IF b1.failure_count >= failure_threshold
             THEN [b1 EXCEPT !.state = OPEN]
             ELSE b1

\* CircuitBreaker.call, the first locked section: TRUE when the call is
\* rejected with CircuitBreakerOpenException.
GateRejects(b, t) == b.state = OPEN /\ ~ShouldAttemptReset(b, t)

\* CircuitBreaker.call, the first locked section: the breaker it leaves.
GateBreaker(b, t) ==
    IF b.state = OPEN /\ ShouldAttemptReset(b, t)
    THEN [b EXCEPT !.state = HALF_OPEN]
    ELSE b

(***************************************************************************)
(* SpecCB: threads calling CircuitBreaker.call on one instance.  The two   *)
(* locked sections of call are the atomic steps; the wrapped function runs *)
(* between them without the lock.                                          *)
(***************************************************************************)
\* admitted_in: breaker state the gate left when it let the call through;
\* last: how the latest call of the thread ended; found: the breaker as the
\* latest locked section of the thread found it (state and success_count).
Found(b) == [state |-> b.state, success_count |-> b.success_count]
IdleCaller ==
    [pc |-> "idle", admitted_in |-> CLOSED, last |-> "none", found |-> Found(NewBreaker)]

\* call, lines 43-49: the gate.
CallEnter(c) ==
    /\ caller[c].pc = "idle"
    /\ IF GateRejects(cb, now)
       THEN /\ caller' = [caller EXCEPT ![c] =
                            [pc |-> "idle", admitted_in |-> cb.state,
                             last |-> "CircuitBreakerOpenException", found |-> Found(cb)]]
            /\ UNCHANGED <<cb, hoRun>>
       ELSE /\ cb' = GateBreaker(cb, now)
            /\ caller' = [caller EXCEPT ![c] =
                            [pc |-> "in_func", admitted_in |-> cb'.state,
                             last |-> "none", found |-> Found(cb)]]
            /\ hoRun' = IF cb.state = OPEN THEN 0 ELSE hoRun
    /\ UNCHANGED <<now, failRun, jobVars>>

\* call, lines 51-57: func returned; _on_success under the lock.
CallReturn(c) ==
    /\ caller[c].pc = "in_func"
    /\ cb' = OnSuccess(cb)
    /\ caller' = [caller EXCEPT ![c] = [@ EXCEPT !.pc = "idle", !.last = "result", !.found = Found(cb)]]
    /\ failRun' = 0
    /\ hoRun' = IF cb.state = HALF_OPEN THEN hoRun + 1 ELSE hoRun
    /\ UNCHANGED <<now, jobVars>>

\* call, lines 59-66: func raised; _on_failure under the lock, re-raise.
CallRaise(c) ==
    /\ caller[c].pc = "in_func"
    /\ cb' = OnFailure(cb, now)
    /\ caller' = [caller EXCEPT ![c] = [@ EXCEPT !.pc = "idle", !.last = "exception", !.found = Found(cb)]]
    /\ failRun' = failRun + 1
    /\ hoRun' = 0
    /\ UNCHANGED <<now, jobVars>>

\* time.time() advances.
TickCB ==
    /\ now + TickStep <= MaxTimeCB
    /\ now' = now + TickStep
    /\ UNCHANGED <<cbVars, jobVars>>

InitCB ==
    /\ cb = NewBreaker
    /\ now = 0
    /\ caller = [c \in Callers |-> IdleCaller]
    /\ failRun = 0
    /\ hoRun = 0
    /\ jobs = <<>>
    /\ queue = {}
    /\ worker = <<>>
    /\ attempts = <<>>
    /\ dups = 0
    /\ probe = NoProbe

NextCB ==
    \/ \E c \in Callers : CallEnter(c)
    \/ \E c \in Callers : CallReturn(c)
    \/ \E c \in Callers : CallRaise(c)
    \/ TickCB

SpecCB == InitCB /\ [][NextCB]_vars

(***************************************************************************)
(* Text extractor: app/services/cv_parser.py.  A text is a sequence of     *)
(* characters; a document is what each parsing library makes of it, in the *)
(* order of CVParserService.parsers: the library raises, or yields a text. *)
(***************************************************************************)
IsSpace(ch) == ch = " "

RECURSIVE LStrip(_)
LStrip(s) == IF s # <<>> /\ IsSpace(Head(s)) THEN LStrip(Tail(s)) ELSE s

RECURSIVE RStrip(_)
RStrip(s) ==
    IF s # <<>> /\ IsSpace(s[Len(s)]) THEN RStrip(SubSeq(s, 1, Len(s) - 1)) ELSE s

\* a strip that trims the leading whitespace only
StripLeadingOnly(s) == LStrip(s)

\* str.strip()
Strip(s) == RStrip(LStrip(s))

\* Optional[str]: None, or a text.
NoneText == [none |-> TRUE, text |-> <<>>]
SomeText(s) == [none |-> FALSE, text |-> s]

\* PDFMinerParser.extract_text / PyMuPDFParser.extract_text: None when the
\* library raises, its text otherwise.
ParserExtract(lib) == IF lib.raises THEN NoneText ELSE SomeText(lib.text)

\* self.parsers = [PDFMinerParser(), PyMuPDFParser()]
Parsers == <<"PDFMinerParser", "PyMuPDFParser">>

\* What extract_text gives, with the parsers it has invoked, in order.
Traced(r, invoked) == [none |-> r.none, text |-> r.text, invoked |-> invoked]

\* CVParserService.extract_text: the loop over self.parsers from index i.
RECURSIVE ExtractFrom(_, _)
ExtractFrom(doc, i) ==
    IF i > Len(doc)
    THEN Traced(NoneText, <<>>)
    ELSE LET text == ParserExtract(doc[i])
         IN  IF ~text.none /\ text.text # <<>> /\ Strip(text.text) # <<>>
             THEN Traced(SomeText(Strip(text.text)), <<Parsers[i]>>)
             ELSE LET rest == ExtractFrom(doc, i + 1)
                  IN  [rest EXCEPT !.invoked = <<Parsers[i]>> \o @]

ExtractText(doc) == ExtractFrom(doc, 1)

Raises == [raises |-> TRUE, text |-> <<>>]
Yields(s) == [raises |-> FALSE, text |-> s]

\* Documents of the pipeline runs: pdfminer fails and PyMuPDF reads the
\* text; pdfminer yields blanks only and PyMuPDF fails.
DocSecond == <<Raises, Yields(<<" ", "x", " ">>)>>
DocBlank == <<Yields(<<" ">>), Raises>>
Docs == {DocSecond, DocBlank}

(***************************************************************************)
(* SpecExtract: CVParserService.extract_text called on one document.  The  *)
(* documents are all the ways the two libraries can raise or yield a text  *)
(* of at most MaxTextLen characters.                                       *)
(***************************************************************************)
MaxTextLen == 2

Chars == {" ", "x"}
Texts == UNION {[1..n -> Chars] : n \in 0..MaxTextLen}
Libraries == {Raises} \cup {Yields(s) : s \in Texts}
ProbeDocs == [1..Len(Parsers) -> Libraries]

\* service.extract_text(file_path) runs to its return.
CallExtractText ==
    /\ probe.fn = "extract_text"
    /\ ~probe.done
    /\ probe' = [probe EXCEPT !.done = TRUE, !.output = ExtractText(probe.input)]
    /\ UNCHANGED <<cb, now, caller, failRun, hoRun, jobs, queue, worker, attempts, dups>>

InitExtract ==
    /\ cb = NewBreaker
    /\ now = 0
    /\ caller = [c \in Callers |-> IdleCaller]
    /\ failRun = 0
    /\ hoRun = 0
    /\ jobs = <<>>
    /\ queue = {}
    /\ worker = <<>>
    /\ attempts = <<>>
    /\ dups = 0
    /\ probe \in {Called("extract_text", doc) : doc \in ProbeDocs}

NextExtract == CallExtractText

SpecExtract == InitExtract /\ [][NextExtract]_vars

(***************************************************************************)
(* AI client: app/services/ai_client.py.  A dict is the set of its keys    *)
(* with the values the pipeline reads (score, error).  A completion is its *)
(* layout (inside a ```json fence or not, with prose next to the body or   *)
(* not), its body ("object": a JSON object; "invalid": braces around what  *)
(* is no JSON; "text": no braces) and the object the body denotes.  The    *)
(* rationale of the object is a plain string, or a string that holds a     *)
(* ``` block with the object nested in it.  A score is a number or         *)
(* something float() refuses.                                              *)
(***************************************************************************)
RequiredFields == <<"score", "rationale", "matches", "gaps">>

NoDict == [none |-> TRUE, keys |-> {}, score |-> 0, numeric |-> FALSE, error |-> ""]
Dict(keys, score, numeric, error) ==
    [none |-> FALSE, keys |-> keys, score |-> score, numeric |-> numeric, error |-> error]
EmptyDict == Dict({}, 0, FALSE, "")

\* {'error': msg, 'score': 0.0}
ErrorPayload(msg) == Dict({"error", "score"}, 0, TRUE, msg)

\* json.loads of a candidate string: the object, or None for JSONDecodeError.
\* The candidate holds the body, with prose around it or not.
JsonLoads(body, prose, obj) == IF body = "object" /\ ~prose THEN obj ELSE NoDict

\* _parse_ai_response, lines 181-209: the JSON nested in the rationale
\* replaces the parsed dict when it has score and matches, gives it its
\* score and gaps when it has a score only, and is ignored otherwise, as
\* when the block holds no JSON.
NestedRationale(parsed, c) ==
    IF "rationale" \notin parsed.keys \/ c.rationale # "block" \/ c.nested.none
    THEN parsed
    ELSE IF "score" \in c.nested.keys /\ "matches" \in c.nested.keys
    THEN c.nested
    ELSE IF "score" \in c.nested.keys
    THEN [parsed EXCEPT !.keys = @ \cup ({"score", "gaps"} \cap c.nested.keys),
                        !.score = c.nested.score,
                        !.numeric = c.nested.numeric]
    ELSE parsed

\* OpenRouterClient._parse_ai_response: the parsed dict, or None.
ParseAIResponse(c) ==
    LET braces == c.body # "text"
        \* lines 160-175: the fenced block as it stands, else the first
        \* {...} without the prose around it, else the whole text
        candidateProse == IF c.fenced THEN c.prose ELSE (~braces /\ c.prose)
        first == JsonLoads(c.body, candidateProse, c.obj)
        \* lines 212-225: fences removed, cut from the first { to the last }
        second == IF braces THEN JsonLoads(c.body, FALSE, c.obj) ELSE NoDict
    IN  IF ~first.none THEN NestedRationale(first, c) ELSE second

\* a client that asks for a parsed dict only and takes the fields as they come
MissingFieldLenient(parsed) ==
    IF parsed.none \/ parsed.keys = {}
    THEN "AI returned invalid JSON response that could not be parsed"
    ELSE ""

\* evaluate_cv, lines 103-114: the message of the first failed check, or "".
MissingField(parsed) ==
    IF parsed.none \/ parsed.keys = {}
    THEN "AI returned invalid JSON response that could not be parsed"
    ELSE IF "score" \notin parsed.keys THEN "AI response missing required 'score' field"
    ELSE IF "rationale" \notin parsed.keys THEN "AI response missing required 'rationale' field"
    ELSE IF "matches" \notin parsed.keys THEN "AI response missing required 'matches' field"
    ELSE IF "gaps" \notin parsed.keys THEN "AI response missing required 'gaps' field"
    ELSE ""

\* _openrouter_evaluation: what the wrapped function does with the HTTP
\* outcome: [raised, msg] or [result].
Raised(msg) == [raised |-> TRUE, msg |-> msg, result |-> NoDict]
Returned(d) == [raised |-> FALSE, msg |-> "", result |-> d]

OpenRouterEvaluation(resp) ==
    IF resp.kind = "timeout" THEN Raised("AI service timeout")
    ELSE IF resp.kind = "request_error" THEN Raised("AI service error")
    ELSE LET parsed == ParseAIResponse(resp.completion)
             missing == MissingField(parsed)
         IN  IF missing # ""
             THEN Raised("AI evaluation failed: " \o missing)
             ELSE IF ~parsed.numeric
             THEN Raised("AI evaluation failed: AI response 'score' field is not a valid number")
             ELSE Returned(parsed)

CircuitOpenMessage == "AI service temporarily unavailable - circuit breaker activated"

\* a client that parses and validates the completion outside the call the
\* breaker wraps: only the transport failures are failures to the breaker
RecordedTransportOnly(b, t, outcome) ==
    IF outcome.raised /\ outcome.msg \in {"AI service timeout", "AI service error"}
    THEN OnFailure(b, t)
    ELSE OnSuccess(b)

\* CircuitBreaker.call, lines 51-66, around _openrouter_evaluation: the
\* breaker after the wrapped function ended with this outcome at time t.
Recorded(b, t, outcome) ==
    IF outcome.raised THEN OnFailure(b, t) ELSE OnSuccess(b)

AllFields == {"score", "rationale", "matches", "gaps"}
Completion(fenced, prose, body, obj) ==
    [fenced |-> fenced, prose |-> prose, body |-> body, obj |-> obj,
     rationale |-> "plain", nested |-> NoDict]
\* The completion c with a ``` block in its rationale: nested is the object
\* in the block, NoDict when the block holds no JSON.
WithBlock(c, nested) == [c EXCEPT !.rationale = "block", !.nested = nested]
Response(kind, completion) == [kind |-> kind, completion |-> completion]

\* HTTP outcomes of the pipeline runs: a timeout; a fenced JSON block with
\* score 72 and every required field; a bare JSON object with score 150 and
\* every required field; a plain-text completion.
Good72 == Response("completion", Completion(TRUE, FALSE, "object", Dict(AllFields, 72, TRUE, "")))
Score150 == Response("completion", Completion(FALSE, FALSE, "object", Dict(AllFields, 150, TRUE, "")))
PlainText == Response("completion", Completion(FALSE, TRUE, "text", NoDict))
Timeout == Response("timeout", Completion(FALSE, TRUE, "text", NoDict))
AIResponses == {Timeout, Good72, Score150, PlainText}

(***************************************************************************)
(* SpecClient: OpenRouterClient._openrouter_evaluation run on one HTTP     *)
(* outcome.  The completions are every layout of every object with a       *)
(* subset of the required fields and a score that is a number or not, with *)
(* and without an object nested in the rationale, and the bodies that are  *)
(* no JSON.                                                                *)
(***************************************************************************)
ProbeObjects == {Dict(keys, 72, numeric, "") : keys \in SUBSET AllFields, numeric \in BOOLEAN}
ProbeNested ==
    {NoDict} \cup {Dict(keys, 85, numeric, "") :
                       keys \in SUBSET {"score", "matches", "gaps"}, numeric \in BOOLEAN}
ProbeCompletions ==
    UNION {{Completion(fenced, prose, "object", obj) : obj \in ProbeObjects}
           \cup {WithBlock(Completion(fenced, prose, "object", obj), nested) :
                    obj \in {o \in ProbeObjects : "rationale" \in o.keys},
                    nested \in ProbeNested}
           \cup {Completion(fenced, prose, body, NoDict) : body \in {"invalid", "text"}}
           : fenced \in BOOLEAN, prose \in BOOLEAN}
ProbeResponses ==
    {Response("completion", c) : c \in ProbeCompletions}
    \cup {Response(kind, PlainText.completion) : kind \in {"timeout", "request_error"}}

\* self._openrouter_evaluation(cv_text, prompt) runs to its return or raise.
CallEvaluation ==
    /\ probe.fn = "_openrouter_evaluation"
    /\ ~probe.done
    /\ probe' = [probe EXCEPT !.done = TRUE, !.output = OpenRouterEvaluation(probe.input)]
    /\ UNCHANGED <<cb, now, caller, failRun, hoRun, jobs, queue, worker, attempts, dups>>

InitClient ==
    /\ cb = NewBreaker
    /\ now = 0
    /\ caller = [c \in Callers |-> IdleCaller]
    /\ failRun = 0
    /\ hoRun = 0
    /\ jobs = <<>>
    /\ queue = {}
    /\ worker = <<>>
    /\ attempts = <<>>
    /\ dups = 0
    /\ probe \in {Called("_openrouter_evaluation", resp) : resp \in ProbeResponses}

NextClient == CallEvaluation

SpecClient == InitClient /\ [][NextClient]_vars

(***************************************************************************)
(* Orchestrator: app/services/evaluation_service.py                        *)
(***************************************************************************)
ExtractionFailedMessage == "Failed to extract text from CV"

\* an orchestrator that passes whatever the extractor gave to the AI client
ExtractionNeverFails(doc) == FALSE

\* CVEvaluationService.evaluate_cv, lines 16-22: TRUE when it returns the
\* extraction error payload without calling the AI client.
ExtractionFails(doc) ==
    LET cv_text == ExtractText(doc) IN cv_text.none \/ cv_text.text = <<>>

\* CVEvaluationService.evaluate_cv, lines 24-31: what it returns for the
\* outcome of ai_client.evaluate_cv.
OrchestratorResult(outcome) ==
    IF outcome.raised THEN ErrorPayload(outcome.msg) ELSE outcome.result

(***************************************************************************)
(* Jobs and the Celery task: app/models.py, app/serializers.py,            *)
(* app/tasks.py.  A task message is [id, retries, eta]: the job id, the    *)
(* request's retries counter and the time before which the broker holds    *)
(* it.  A worker slot executes one task at a time.                         *)
(***************************************************************************)
NumJobs == 1
NumWorkers == 2
MaxDups == 1
MaxTime == 420

JobIds == 1..NumJobs
Workers == 1..NumWorkers

STATUS_PENDING == 0
STATUS_PROCESSING == 1
STATUS_COMPLETED == 2
STATUS_FAILED == 3

max_retries == 3

\* An optional field is the set of its values: {} is None.
None == {}
Some(v) == {v}

\* updated_at = DateTimeField(default=timezone.now).  Timestamps are only
\* compared: the field holds how many times it has been set again since the
\* insert, whose timezone.now() is InsertTime.
InsertTime == 0

\* No document with this id in the collection.
NoJob ==
    [exists |-> FALSE, status |-> STATUS_PENDING, ai_response |-> EmptyDict,
     score |-> None, error_message |-> None, doc |-> <<>>, prompt |-> <<>>,
     updated_at |-> InsertTime]

\* CVEvaluationRequest(user_id, cv_id, prompt) with the field defaults; doc
\* is the stored file the CVUpload of cv_id points to.
NewJob(doc, prompt) ==
    [exists |-> TRUE, status |-> STATUS_PENDING, ai_response |-> EmptyDict,
     score |-> None, error_message |-> None, doc |-> doc, prompt |-> prompt,
     updated_at |-> InsertTime]

\* objects(id=...).update_one(...): no document matched, nothing written.
UpdateOne(js, id, changed) == IF js[id].exists THEN [js EXCEPT ![id] = changed] ELSE js

Message(id, retries, eta) == [id |-> id, retries |-> retries, eta |-> eta]

\* a countdown that grows by a minute with each retry
CountdownLinear(retries) == 60 * (retries + 1)

\* countdown=60 * (2 ** self.request.retries)
Countdown(retries) == 60 * (2 ^ retries)

IdleWorker ==
    [pc |-> "idle", id |-> 0, retries |-> 0, result |-> NoDict, exc |-> "", cause |-> ""]

\* What a submission carried: the prompt, the size and the content type of
\* the file.
NoRequest == [prompt |-> <<>>, size |-> 0, content_type |-> ""]
Request(prompt, file) ==
    [prompt |-> prompt, size |-> file.size, content_type |-> file.content_type]

\* History of a submission and of its job: request and response, what the
\* submission carried and whether it was answered "created" or "rejected";
\* published, the task messages published for the job; retries, the retries
\* counter of the latest of them; n, the attempts finished; first and last,
\* why the first and the latest of them ended.
NoHistory ==
    [published |-> 0, retries |-> 0, n |-> 0, first |-> "", last |-> "",
     request |-> NoRequest, response |-> ""]

\* The history gains a finished attempt that ended for this cause.
Finished(h, cause) ==
    [h EXCEPT !.n = @ + 1, !.first = IF h.n = 0 THEN cause ELSE @, !.last = cause]

\* The history gains the published messages ms.
Published(h, ms) ==
    IF ms = {} THEN h
    ELSE [h EXCEPT !.published = @ + Cardinality(ms),
                   !.retries = (CHOOSE m \in ms : TRUE).retries]

StorageErrorMessage == "storage fetch failed"
MissingScoreMessage == "AI evaluation result missing 'score' field"

\* a create that saves the job and publishes nothing
DelayNothing(id) == {}

\* evaluate_cv_task.delay(str(evaluation.id)): the messages it publishes.
DelayMessages(id) == {Message(id, 0, now)}

MinPromptLength == 10
MaxFileSize == 10 * 1024 * 1024

\* a validation that measures the prompt as it was sent
PromptErrorUntrimmed(value) == Len(value) < MinPromptLength

\* CVUploadSerializer.validate_prompt: TRUE when it raises ValidationError.
PromptError(value) == Len(Strip(value)) < MinPromptLength

\* CVUploadSerializer.validate_file: TRUE when it raises ValidationError.
FileError(file) ==
    \/ file.size > MaxFileSize
    \/ file.content_type \notin {"application/pdf"}

\* An uploaded file: its size, its content type and what the parsing
\* libraries will make of it.
Upload(size, content_type, doc) == [size |-> size, content_type |-> content_type, doc |-> doc]

\* CVUploadView.post, the j-th submission: is_valid(raise_exception=True)
\* answers 400 before anything is saved; else CVUploadSerializer.create
\* saves the file, the upload and the job with the validated (stripped)
\* prompt and publishes the task.
Submit(j, prompt, file) ==
    /\ attempts[j].response = ""
    /\ \A i \in JobIds : i < j => attempts[i].response # ""
    /\ IF PromptError(prompt) \/ FileError(file)
       THEN /\ attempts' = [attempts EXCEPT ![j] =
                   [@ EXCEPT !.request = Request(prompt, file), !.response = "rejected"]]
            /\ UNCHANGED <<jobs, queue>>
       ELSE /\ jobs' = [jobs EXCEPT ![j] = NewJob(file.doc, Strip(prompt))]
            /\ queue' = queue \cup DelayMessages(j)
            /\ attempts' = [attempts EXCEPT ![j] =
                   [Published(@, DelayMessages(j)) EXCEPT
                       !.request = Request(prompt, file), !.response = "created"]]
    /\ UNCHANGED <<cb, now, caller, failRun, hoRun, probe, worker, dups>>

\* a task that does not mark the job Processing
MarkProcessingSkipped(js, id) == js

\* evaluate_cv_task, lines 30-32: update_one(set__status=STATUS_PROCESSING).
MarkProcessing(js, id) ==
    UpdateOne(js, id, [js[id] EXCEPT !.status = STATUS_PROCESSING])

\* evaluate_cv_task, lines 27-62 up to the breaker's gate: the status is
\* set to Processing; the job and the upload are loaded and the file is
\* fetched (fetchOk: the storage answers); the text is extracted; the AI
\* client goes through the gate of the breaker.  The broker hands the
\* message over once; with keep it holds on to it and will deliver it again.
Begin(w, m, fetchOk, keep) ==
    /\ worker[w].pc = "idle"
    \* slots are interchangeable: a message goes to the first idle one
    /\ \A v \in Workers : v < w => worker[v].pc # "idle"
    /\ m \in queue
    /\ m.eta <= now
    /\ IF keep
       THEN dups < MaxDups /\ dups' = dups + 1 /\ queue' = queue
       ELSE dups' = dups /\ queue' = queue \ {m}
    /\ jobs' = MarkProcessing(jobs, m.id)
    /\ LET mine == [IdleWorker EXCEPT !.id = m.id, !.retries = m.retries]
       IN  IF ~jobs[m.id].exists
           THEN /\ worker' = [worker EXCEPT ![w] =
                      [mine EXCEPT !.pc = "except",
                                   !.exc = "CVEvaluationRequest matching query does not exist.",
                                   !.cause = "lookup"]]
                /\ cb' = cb
           ELSE IF ~fetchOk
           THEN /\ worker' = [worker EXCEPT ![w] =
                      [mine EXCEPT !.pc = "except", !.exc = StorageErrorMessage,
                                   !.cause = "storage"]]
                /\ cb' = cb
           ELSE IF ExtractionFails(jobs[m.id].doc)
           THEN /\ worker' = [worker EXCEPT ![w] =
                      [mine EXCEPT !.pc = "result",
                                   !.result = ErrorPayload(ExtractionFailedMessage),
                                   !.cause = "extraction"]]
                /\ cb' = cb
           ELSE IF GateRejects(cb, now)
           THEN /\ worker' = [worker EXCEPT ![w] =
                      [mine EXCEPT !.pc = "result",
                                   !.result = OrchestratorResult(Raised(CircuitOpenMessage)),
                                   !.cause = "circuit_open"]]
                /\ cb' = cb
           ELSE /\ worker' = [worker EXCEPT ![w] = [mine EXCEPT !.pc = "ai"]]
                /\ cb' = GateBreaker(cb, now)
    /\ UNCHANGED <<now, caller, failRun, hoRun, probe, attempts>>

\* The cause recorded for an attempt that got the HTTP outcome resp.
CauseOf(resp, outcome) ==
    IF resp.kind = "timeout" THEN "ai_timeout"
    ELSE IF resp.kind = "request_error" THEN "ai_error"
    ELSE IF outcome.raised THEN "malformed"
    ELSE "ai_result"

\* The wrapped function ends with the HTTP outcome resp: the breaker's
\* second locked section (call, lines 51-66), then the orchestrator's
\* return value reaches the task.
AIReturn(w, resp) ==
    /\ worker[w].pc = "ai"
    /\ LET outcome == OpenRouterEvaluation(resp)
       IN  /\ cb' = Recorded(cb, now, outcome)
           /\ worker' = [worker EXCEPT ![w] =
                 [@ EXCEPT !.pc = "result", !.result = OrchestratorResult(outcome),
                           !.cause = CauseOf(resp, outcome)]]
    /\ UNCHANGED <<now, caller, failRun, hoRun, probe, jobs, queue, attempts, dups>>

\* evaluate_cv_task, lines 72-80: the job as the error branch writes it.
StoreFailed(job, result) ==
    [job EXCEPT !.status = STATUS_FAILED,
                !.ai_response = result,
                !.score = IF "score" \in result.keys THEN Some(result.score) ELSE None,
                !.error_message = Some(result.error)]

\* evaluate_cv_task, lines 86-91: the job as the success branch writes it.
StoreCompleted(job, result) ==
    [job EXCEPT !.status = STATUS_COMPLETED,
                !.ai_response = result,
                !.score = Some(result.score),
                !.error_message = None]

\* a task that takes every result of the orchestrator for an evaluation
ErrorIgnored(result) == FALSE

\* evaluate_cv_task, line 72: 'error' in result and result['error']
HasError(result) == "error" \in result.keys /\ result.error # ""

\* evaluate_cv_task, lines 71-94: the result is stored and the task returns,
\* or the missing score raises.
Store(w) ==
    /\ worker[w].pc = "result"
    /\ LET id == worker[w].id
           result == worker[w].result
       IN  IF HasError(result)
           THEN /\ jobs' = UpdateOne(jobs, id, StoreFailed(jobs[id], result))
                /\ worker' = [worker EXCEPT ![w] = IdleWorker]
                /\ attempts' = [attempts EXCEPT ![id] = Finished(@, worker[w].cause)]
           ELSE IF "score" \notin result.keys
           THEN /\ worker' = [worker EXCEPT ![w] =
                      [@ EXCEPT !.pc = "except", !.exc = MissingScoreMessage,
                                !.cause = "missing_score"]]
                /\ UNCHANGED <<jobs, attempts>>
           ELSE /\ jobs' = UpdateOne(jobs, id, StoreCompleted(jobs[id], result))
                /\ worker' = [worker EXCEPT ![w] = IdleWorker]
                /\ attempts' = [attempts EXCEPT ![id] = Finished(@, worker[w].cause)]
    /\ UNCHANGED <<cb, now, caller, failRun, hoRun, probe, queue, dups>>

\* a handler that goes on to the retry without persisting Failed
ExceptSkipsPersist(w) ==
    /\ worker[w].pc = "except"
    /\ worker' = [worker EXCEPT ![w] = [@ EXCEPT !.pc = "retry"]]
    /\ UNCHANGED <<cb, now, caller, failRun, hoRun, probe, jobs, queue, attempts, dups>>

\* a handler that persists Failed without the message
ExceptDropsMessage(w) ==
    /\ worker[w].pc = "except"
    /\ LET id == worker[w].id
       IN  jobs' = UpdateOne(jobs, id, [jobs[id] EXCEPT !.status = STATUS_FAILED])
    /\ worker' = [worker EXCEPT ![w] = [@ EXCEPT !.pc = "retry"]]
    /\ UNCHANGED <<cb, now, caller, failRun, hoRun, probe, queue, attempts, dups>>

\* evaluate_cv_task, lines 96-102: the handler persists Failed.
Except(w) ==
    /\ worker[w].pc = "except"
    /\ LET id == worker[w].id
       IN  jobs' = UpdateOne(jobs, id,
                       [jobs[id] EXCEPT !.status = STATUS_FAILED,
                                        !.error_message = Some(worker[w].exc)])
    /\ worker' = [worker EXCEPT ![w] = [@ EXCEPT !.pc = "retry"]]
    /\ UNCHANGED <<cb, now, caller, failRun, hoRun, probe, queue, attempts, dups>>

\* self.retry(countdown=...): the messages it publishes.
RetryMessages(id, retries) == {Message(id, retries + 1, now + Countdown(retries))}

\* a retry test that is off by one (<= for <)
MayRetryOnceMore(retries) == retries <= max_retries

\* evaluate_cv_task, line 104: self.request.retries < self.max_retries
MayRetry(retries) == retries < max_retries

\* evaluate_cv_task, lines 104-108: retry, or return the error payload.
RetryOrReturn(w) ==
    /\ worker[w].pc = "retry"
    /\ LET id == worker[w].id
           retries == worker[w].retries
           ms == IF MayRetry(retries) THEN RetryMessages(id, retries) ELSE {}
       IN  /\ queue' = queue \cup ms
           /\ attempts' = [attempts EXCEPT ![id] = Published(Finished(@, worker[w].cause), ms)]
    /\ worker' = [worker EXCEPT ![w] = IdleWorker]
    /\ UNCHANGED <<cb, now, caller, failRun, hoRun, probe, jobs, dups>>

\* time.time() advances.
Tick ==
    /\ now + TickStep <= MaxTime
    /\ now' = now + TickStep
    /\ UNCHANGED <<cbVars, jobVars>>

\* Submissions of the pipeline runs: a prompt with blanks around
\* MinPromptLength - 1 or MinPromptLength characters; a file of the largest
\* size allowed or one byte more, declared a PDF or plain text.
Repeat(ch, n) == [i \in 1..n |-> ch]
Padded(n) == <<" ">> \o Repeat("x", n) \o <<" ">>
Prompts == {Padded(MinPromptLength - 1), Padded(MinPromptLength)}
Files ==
    {Upload(size, content_type, doc) :
        size \in {MaxFileSize, MaxFileSize + 1},
        content_type \in {"application/pdf", "text/plain"},
        doc \in Docs}

\* The breaker is process-wide and outlives jobs: the pipeline starts with
\* a fresh one, with one that earlier calls left one failure short of
\* opening, or with one that they have just opened.
InitBreakers ==
    {NewBreaker,
     [NewBreaker EXCEPT !.failure_count = failure_threshold - 1, !.last_failure_time = 0],
     [NewBreaker EXCEPT !.state = OPEN, !.failure_count = failure_threshold,
                        !.last_failure_time = 0]}

Init ==
    /\ cb \in InitBreakers
    /\ now = 0
    /\ caller = [c \in Callers |-> IdleCaller]
    /\ failRun = 0
    /\ hoRun = 0
    /\ jobs = [j \in JobIds |-> NoJob]
    /\ queue = {}
    /\ worker = [w \in Workers |-> IdleWorker]
    /\ attempts = [j \in JobIds |-> NoHistory]
    /\ dups = 0
    /\ probe = NoProbe

Next ==
    \/ \E j \in JobIds, prompt \in Prompts, file \in Files : Submit(j, prompt, file)
    \/ \E w \in Workers, m \in queue, fetchOk \in BOOLEAN : Begin(w, m, fetchOk, FALSE)
    \/ \E w \in Workers, resp \in AIResponses : AIReturn(w, resp)
    \/ \E w \in Workers : Store(w)
    \/ \E w \in Workers : Except(w)
    \/ \E w \in Workers : RetryOrReturn(w)
    \/ Tick

Spec == Init /\ [][Next]_vars

\* The broker delivers at least once: up to MaxDups deliveries leave the
\* message with the broker.
NextDup ==
    \/ Next
    \/ \E w \in Workers, m \in queue, fetchOk \in BOOLEAN : Begin(w, m, fetchOk, TRUE)

SpecDup == Init /\ [][NextDup]_vars

(***************************************************************************)
(* SpecEval: one thread calling OpenRouterClient.evaluate_cv again and     *)
(* again on the process-wide breaker, each call getting one HTTP outcome.  *)
(* attempts is the sequence of causes of the calls that failed in the      *)
(* wrapped function since the last one that succeeded; probe is the latest *)
(* call.                                                                   *)
(***************************************************************************)
MaxFailedCalls == 6

\* OpenRouterClient.evaluate_cv, lines 144-148: the call through the
\* breaker, from the gate to the return or raise.
EvaluateCv(resp) ==
    /\ Len(attempts) < MaxFailedCalls
    /\ IF GateRejects(cb, now)
       THEN /\ probe' = [Called("evaluate_cv", resp) EXCEPT
                            !.done = TRUE, !.output = Raised(CircuitOpenMessage)]
            /\ UNCHANGED <<cb, attempts>>
       ELSE LET outcome == OpenRouterEvaluation(resp)
            IN  /\ cb' = Recorded(GateBreaker(cb, now), now, outcome)
                /\ probe' = [Called("evaluate_cv", resp) EXCEPT
                                !.done = TRUE, !.output = outcome]
                /\ attempts' = IF outcome.raised
                               THEN Append(attempts, CauseOf(resp, outcome))
                               ELSE <<>>
    /\ UNCHANGED <<now, caller, failRun, hoRun, jobs, queue, worker, dups>>

InitEval ==
    /\ cb = NewBreaker
    /\ now = 0
    /\ caller = [c \in Callers |-> IdleCaller]
    /\ failRun = 0
    /\ hoRun = 0
    /\ jobs = <<>>
    /\ queue = {}
    /\ worker = <<>>
    /\ attempts = <<>>
    /\ dups = 0
    /\ probe = NoProbe

NextEval ==
    \/ \E resp \in AIResponses : EvaluateCv(resp)
    \/ TickCB

SpecEval == InitEval /\ [][NextEval]_vars

(***************************************************************************)
(* SpecStray: Spec plus task requests for ids that no job has, as a caller *)
(* of evaluate_cv_task.delay outside the submission path would make them.  *)
(***************************************************************************)
\* evaluate_cv_task.delay(id) for an id of no document in the collection;
\* the slot j stands for that id and is not used by a submission.
InvokeUnknown(j) ==
    /\ attempts[j].response = ""
    /\ \A i \in JobIds : i < j => attempts[i].response # ""
    /\ queue' = queue \cup DelayMessages(j)
    /\ attempts' = [attempts EXCEPT ![j] =
           [Published(@, DelayMessages(j)) EXCEPT !.response = "no submission"]]
    /\ UNCHANGED <<cb, now, caller, failRun, hoRun, probe, jobs, worker, dups>>

NextStray ==
    \/ Next
    \/ \E j \in JobIds : InvokeUnknown(j)

SpecStray == Init /\ [][NextStray]_vars

(***************************************************************************)
(* SpecLive: the pipeline of Spec under fair execution.  Time passes as    *)
(* long as the broker holds a message back (the clock matters to progress  *)
(* through the eta of a message only); a worker slot takes a message that  *)
(* is due; requests.post answers or times out (timeout=60); a task that    *)
(* has started runs to its return or retry.                                *)
(***************************************************************************)
\* time.time() advances while a message waits for its eta.
Wait ==
    /\ \E m \in queue : m.eta > now
    /\ now' = now + TickStep
    /\ UNCHANGED <<cbVars, jobVars>>

Deliver == \E w \in Workers, m \in queue, fetchOk \in BOOLEAN : Begin(w, m, fetchOk, FALSE)
Answer(w) == \E resp \in AIResponses : AIReturn(w, resp)

NextLive ==
    \/ \E j \in JobIds, prompt \in Prompts, file \in Files : Submit(j, prompt, file)
    \/ Deliver
    \/ \E w \in Workers : Answer(w)
    \/ \E w \in Workers : Store(w)
    \/ \E w \in Workers : Except(w)
    \/ \E w \in Workers : RetryOrReturn(w)
    \/ Wait

Fairness ==
    /\ WF_vars(Wait)
    /\ WF_vars(Deliver)
    /\ \A w \in Workers :
          /\ WF_vars(Answer(w))
          /\ WF_vars(Store(w))
          /\ WF_vars(Except(w))
          /\ WF_vars(RetryOrReturn(w))

SpecLive == Init /\ [][NextLive]_vars /\ Fairness

(***************************************************************************)
(* Claims about the job worker, checked under Spec (C4 under SpecDup).     *)
(***************************************************************************)
Busy(w) == worker[w].pc # "idle"

\* Slots executing an attempt of job j, and messages waiting for it.
InFlight(j) == {w \in Workers : Busy(w) /\ worker[w].id = j}
Scheduled(j) == {m \in queue : m.id = j}

\* Nothing is running or waiting for job j.
Quiescent(j) == InFlight(j) = {} /\ Scheduled(j) = {}

\* The retries counter of the latest task request of job j.
RetryCount(j) == attempts[j].retries

\* The step ends an attempt of slot w (the task returns or retries).
Ends(w) == Busy(w) /\ ~Busy(w)'

\* The step starts an attempt in slot w.
Starts(w) == ~Busy(w) /\ Busy(w)'

\* C1: a job whose first attempt failed because the AI call timed out, and
\* whose re-attempt (if one has run) got the fenced score-72 completion,
\* comes to rest Completed with retryCount 1 and score 72.
C1_TimeoutThenSuccess ==
    \A j \in JobIds :
        (/\ jobs[j].exists
         /\ Quiescent(j)
         /\ attempts[j].first = "ai_timeout"
         /\ \/ attempts[j].n = 1
            \/ attempts[j].n = 2 /\ attempts[j].last = "ai_result")
        => /\ jobs[j].status = STATUS_COMPLETED
           /\ RetryCount(j) = 1
           /\ jobs[j].score = Some(72)

\* C2: whatever the error kind, the end of a failed attempt whose request
\* had retries < max_retries publishes exactly one task message for the job.
C2_RetryWhateverTheKind ==
    [][\A w \in Workers :
          (/\ Ends(w)
           /\ worker[w].cause # "ai_result"
           /\ worker[w].retries < max_retries)
          => attempts'[worker[w].id].published = attempts[worker[w].id].published + 1]_vars

\* C3: retryCount never exceeds max_retries; it changes only by +1, at the
\* end of an attempt that left the job Failed; an attempt that raised with
\* retries < max_retries ends with retryCount one above its own; an attempt
\* with retries = max_retries publishes nothing; and a job at rest whose
\* latest attempt failed is Failed.
C3_RetryBudget ==
    /\ [](\A j \in JobIds :
            /\ RetryCount(j) <= max_retries
            /\ \A m \in Scheduled(j) : m.retries <= max_retries
            /\ (Quiescent(j) /\ attempts[j].n > 0 /\ attempts[j].last # "ai_result")
                  => jobs[j].status = STATUS_FAILED)
    /\ [][\A j \in JobIds :
            RetryCount(j)' # RetryCount(j) =>
                /\ RetryCount(j)' = RetryCount(j) + 1
                /\ attempts'[j].n = attempts[j].n + 1
                /\ jobs[j].status = STATUS_FAILED]_vars
    /\ [][\A w \in Workers :
            (Ends(w) /\ worker[w].pc = "retry") =>
                IF worker[w].retries < max_retries
                THEN /\ attempts'[worker[w].id].retries = worker[w].retries + 1
                     /\ \E m \in queue' : m.id = worker[w].id
                ELSE /\ attempts'[worker[w].id].retries = max_retries
                     /\ \A m \in queue' : m.id # worker[w].id
                     /\ \A v \in Workers : Busy(v)' => worker'[v].id # worker[w].id]_vars

C3_Witness ==
    \E j \in JobIds :
        /\ Quiescent(j)
        /\ attempts[j].n = max_retries + 1
        /\ RetryCount(j) = max_retries
        /\ attempts[j].last = "storage"
        /\ jobs[j].status = STATUS_FAILED

\* C4: a step leaves a Completed job as it is.
C4_CompletedIsFinal ==
    [][\A j \in JobIds :
          jobs[j].status = STATUS_COMPLETED =>
              /\ jobs'[j].status = jobs[j].status
              /\ jobs'[j].ai_response = jobs[j].ai_response
              /\ jobs'[j].error_message = jobs[j].error_message]_vars

\* C5: per job at most one attempt is running or waiting to run, and a
\* re-attempt starts only on a job that the failed attempt has left Failed.
C5_OneAttemptInFlight ==
    /\ [](\A j \in JobIds : Cardinality(InFlight(j)) + Cardinality(Scheduled(j)) <= 1)
    /\ [][\A w \in Workers :
            (Starts(w) /\ worker'[w].retries > 0) =>
                /\ jobs[worker'[w].id].status = STATUS_FAILED
                /\ InFlight(worker'[w].id) = {}]_vars

C5_Witness ==
    \E w \in Workers :
        /\ Busy(w)
        /\ worker[w].retries > 0
        /\ attempts[worker[w].id].n = worker[w].retries
        /\ jobs[worker[w].id].status = STATUS_PROCESSING

\* C6: a job is created Pending and its status changes only along
\* Pending -> Processing, Processing -> Completed, Processing -> Failed and
\* Failed -> Processing.
AllowedTransitions ==
    {<<STATUS_PENDING, STATUS_PROCESSING>>,
     <<STATUS_PROCESSING, STATUS_COMPLETED>>,
     <<STATUS_PROCESSING, STATUS_FAILED>>,
     <<STATUS_FAILED, STATUS_PROCESSING>>}

C6_StatusTransitions ==
    [][\A j \in JobIds :
          /\ (~jobs[j].exists /\ jobs'[j].exists) => jobs'[j].status = STATUS_PENDING
          /\ (jobs[j].exists /\ jobs'[j].status # jobs[j].status) =>
                <<jobs[j].status, jobs'[j].status>> \in AllowedTransitions]_vars

C6_Witness ==
    \E j \in JobIds :
        /\ jobs[j].status = STATUS_COMPLETED
        /\ RetryCount(j) > 0
        /\ attempts[j].first = "storage"


(***************************************************************************)
(* Claims about the circuit breaker, checked under SpecCB.                 *)
(***************************************************************************)
InFunc(c) == caller[c].pc = "in_func"

\* The step is a call of thread c arriving at the gate.
Arrives(c) == caller[c].pc = "idle" /\ caller'[c] # caller[c]

\* The step records a failed call / a successful call.
RecordsFailure == failRun' = failRun + 1
RecordsSuccess == \E c \in Callers : InFunc(c) /\ caller'[c].last = "result"

\* C7: counted from the last successful call (or from construction), the
\* breaker is still Closed after fewer than failure_threshold failed calls
\* and Open after the failure_threshold-th; a call arriving while it is Open
\* and recovery_timeout has not elapsed since the last failure ends with
\* CircuitBreakerOpenException and the wrapped function is not entered.
C7_OpensAtThreshold ==
    /\ [](cb.state = CLOSED => failRun < failure_threshold)
    /\ [][(cb.state = CLOSED /\ RecordsFailure) =>
            cb'.state = (IF failRun' = failure_threshold THEN OPEN ELSE CLOSED)]_vars
    /\ [][\A c \in Callers :
            (Arrives(c) /\ cb.state = OPEN
                        /\ now - cb.last_failure_time < recovery_timeout) =>
                /\ ~InFunc(c)'
                /\ caller'[c].last = "CircuitBreakerOpenException"
                /\ cb' = cb]_vars

C7_Witness ==
    /\ cb.state = OPEN
    /\ failRun = failure_threshold
    /\ \E c \in Callers :
          /\ caller[c].last = "CircuitBreakerOpenException"
          /\ caller[c].found.state = OPEN

C9_HalfOpenFailure ==
    [][(cb.state = HALF_OPEN /\ RecordsFailure) =>
          /\ cb'.state = OPEN
          /\ cb'.success_count = 0]_vars

C9_Witness ==
    /\ cb.state = OPEN
    /\ \E c \in Callers :
          /\ caller[c].last = "exception"
          /\ caller[c].found.state = HALF_OPEN
          /\ caller[c].found.success_count > 0

\* C10: while the breaker is Half-Open at most one wrapped function that
\* the gate let through in Half-Open is being executed.
C10_SingleProbe ==
    cb.state = HALF_OPEN =>
        Cardinality({c \in Callers : InFunc(c) /\ caller[c].admitted_in = HALF_OPEN}) <= 1

(***************************************************************************)
(* Claims about what a job stores, checked under Spec.                     *)
(***************************************************************************)
HasResult(j) == jobs[j].ai_response # EmptyDict \/ jobs[j].score # None

\* C11: a job carries a stored result (ai_response or score) only when its
\* status is Completed; Pending, Processing and Failed jobs carry none.
C11_ResultOnlyWhenCompleted ==
    \A j \in JobIds :
        (jobs[j].exists /\ HasResult(j)) => jobs[j].status = STATUS_COMPLETED

\* C12: a job carries an error message only when its status is Failed; a
\* job that is Processing again for a retry, and a Completed job, carry none.
C12_ErrorMessageOnlyWhenFailed ==
    \A j \in JobIds :
        (jobs[j].exists /\ jobs[j].error_message # None) => jobs[j].status = STATUS_FAILED

AIClientErrors == {"ai_timeout", "ai_error", "malformed", "circuit_open"}

\* C15: when the AI client raises, the orchestrator raises the same error:
\* the attempt is in the task's exception handler, and it never holds a
\* value returned for that error.
C15_OrchestratorReraises ==
    \A w \in Workers :
        (Busy(w) /\ worker[w].cause \in AIClientErrors) =>
            (worker[w].pc \in {"except", "retry"} /\ worker[w].result = NoDict)

\* No parsing library gets a text with a non-blank character out of doc.
YieldsNothing(doc) ==
    \A i \in 1..Len(doc) :
        doc[i].raises \/ \A k \in 1..Len(doc[i].text) : IsSpace(doc[i].text[k])

\* C16: when the extraction yields nothing, the attempt gets the extraction
\* failure from the orchestrator and the AI client is not called: the
\* attempt never waits for the AI service nor ends for a cause of the AI
\* client or its breaker.
C16_ExtractionFailure ==
    \A w \in Workers :
        (Busy(w) /\ jobs[worker[w].id].exists /\ YieldsNothing(jobs[worker[w].id].doc)) =>
            /\ worker[w].pc # "ai"
            /\ worker[w].cause \in {"storage", "extraction"}
            /\ worker[w].cause = "extraction" =>
                  /\ worker[w].pc = "result"
                  /\ worker[w].result = ErrorPayload(ExtractionFailedMessage)

C16_Witness ==
    \E w \in Workers :
        /\ worker[w].pc = "result"
        /\ worker[w].cause = "extraction"
        /\ worker[w].result.error = ExtractionFailedMessage
        /\ YieldsNothing(jobs[worker[w].id].doc)

(***************************************************************************)
(* Claims about the text extractor, checked under SpecExtract.             *)
(***************************************************************************)
\* The positions of the non-blank characters of a text, and the text
\* between the first and the last of them.
Inked(s) == {k \in 1..Len(s) : ~IsSpace(s[k])}
Min(S) == CHOOSE a \in S : \A b \in S : a <= b
Max(S) == CHOOSE a \in S : \A b \in S : a >= b
Trimmed(s) == SubSeq(s, Min(Inked(s)), Max(Inked(s)))

\* The parsers that get a text with a non-blank character out of doc.
Usable(doc) == {i \in 1..Len(doc) : ~doc[i].raises /\ Inked(doc[i].text) # {}}

\* C17: the extractor invokes the parsers in their fixed order up to the
\* first one whose output is non-empty after trimming and no further, and
\* returns that output trimmed; parsers that raise or yield only whitespace
\* are passed over, and when all are passed over it returns None.
C17_FirstUsableParser ==
    (probe.fn = "extract_text" /\ probe.done) =>
        LET doc == probe.input
            out == probe.output
        IN  IF Usable(doc) = {}
            THEN /\ out.none
                 /\ out.invoked = Parsers
            ELSE LET first == Min(Usable(doc))
                 IN  /\ ~out.none
                     /\ out.text = Trimmed(doc[first].text)
                     /\ out.invoked = SubSeq(Parsers, 1, first)

\* The first parser yields a text with blanks around it and the second one
\* would yield a text too: only the first is invoked.
C17_Witness ==
    /\ probe.fn = "extract_text"
    /\ probe.done
    /\ probe.input = <<Yields(<<"x", " ">>), Yields(<<"x">>)>>
    /\ probe.output.text = <<"x">>
    /\ probe.output.invoked = <<"PDFMinerParser">>

(***************************************************************************)
(* Claims about the AI client, checked under SpecClient.                   *)
(***************************************************************************)
\* The dict has every required field and a score float() accepts.
Complete(d) == ~d.none /\ AllFields \subseteq d.keys /\ d.numeric

TrimmedLen(s) == IF Inked(s) = {} THEN 0 ELSE Max(Inked(s)) - Min(Inked(s)) + 1

\* The submission passes validation: at least 10 characters of prompt after
\* trimming, a PDF of at most 10 MB.
Acceptable(request) ==
    /\ TrimmedLen(request.prompt) >= 10
    /\ request.content_type = "application/pdf"
    /\ request.size <= 10485760

\* C18: a submission that passes validation creates exactly one job, in
\* Pending, and publishes exactly one task message for that job; a
\* submission rejected by validation (prompt under 10 characters after
\* trimming, a file that is no PDF or too large) leaves the collection and
\* the queue as they were.
C18_SubmissionCreatesOne ==
    /\ [](\A j \in JobIds :
            /\ attempts[j].response = "created" <=>
                  (attempts[j].response # "" /\ Acceptable(attempts[j].request))
            /\ jobs[j].exists <=> attempts[j].response = "created"
            /\ attempts[j].response # "created" =>
                  (attempts[j].published = 0 /\ Scheduled(j) = {} /\ InFlight(j) = {}))
    /\ [][\A j \in JobIds :
            (attempts[j].response = "" /\ attempts'[j].response # "") =>
                IF attempts'[j].response = "created"
                THEN /\ jobs'[j].exists
                     /\ jobs'[j].status = STATUS_PENDING
                     /\ \A i \in JobIds \ {j} : jobs'[i] = jobs[i]
                     /\ \E m \in queue' :
                           /\ m.id = j
                           /\ m \notin queue
                           /\ queue' = queue \cup {m}
                     /\ attempts'[j].published = 1
                ELSE jobs' = jobs /\ queue' = queue]_vars

\* A submission whose prompt has 11 characters, 9 of them after trimming,
\* sent with an acceptable file, was rejected.
C18_Witness ==
    \E j \in JobIds :
        /\ attempts[j].response = "rejected"
        /\ Len(attempts[j].request.prompt) = 11
        /\ TrimmedLen(attempts[j].request.prompt) = 9
        /\ attempts[j].request.content_type = "application/pdf"
        /\ attempts[j].request.size <= 10485760
        /\ ~jobs[j].exists

(***************************************************************************)
(* Claims about progress, checked under SpecLive.                          *)
(***************************************************************************)
\* Job j is at rest Completed or Failed: nothing runs or waits for it.
AtRest(j) ==
    /\ jobs[j].status \in {STATUS_COMPLETED, STATUS_FAILED}
    /\ Quiescent(j)

\* C19: under fair execution every submitted job eventually is Completed,
\* or Failed with no re-attempt running or scheduled; hence none stays
\* Pending or Processing forever.
C19_EveryJobComesToRest ==
    \A j \in JobIds : jobs[j].exists ~> AtRest(j)

\* A job at rest Failed after its retry budget was used up.
C19_Witness ==
    \E j \in JobIds :
        /\ jobs[j].exists
        /\ AtRest(j)
        /\ jobs[j].status = STATUS_FAILED
        /\ attempts[j].retries = max_retries
        /\ attempts[j].n = max_retries + 1

(***************************************************************************)
(* Claims about the breaker's first call after recovery, checked under     *)
(* SpecCB.                                                                 *)
(***************************************************************************)
\* The step records the first successful call since the breaker, having
\* been Open for recovery_timeout, was moved to Half-Open.
FirstSuccessAfterRecovery == cb.state = HALF_OPEN /\ hoRun = 0 /\ RecordsSuccess

C21_AtomicFailureCount ==
    /\ [](cb.failure_count = failRun)
    /\ [][RecordsFailure => cb'.failure_count = cb.failure_count + 1]_vars
    /\ [][(cb.state = CLOSED /\ cb'.state # CLOSED) =>
            /\ RecordsFailure
            /\ cb'.state = OPEN
            /\ cb.failure_count = failure_threshold - 1
            /\ cb'.failure_count = failure_threshold]_vars
    /\ [][(cb.state = OPEN /\ RecordsFailure) => cb'.state = OPEN]_vars

\* Two callers were admitted while the breaker was Closed and both failed:
\* the first of the two failures opened it, the second found it Open.
C21_Witness ==
    /\ cb.state = OPEN
    /\ cb.failure_count = failure_threshold + 1
    /\ failRun = failure_threshold + 1
    /\ \A c \in {1, 2} :
          /\ caller[c].last = "exception"
          /\ caller[c].admitted_in = CLOSED
    /\ \E c \in {1, 2} : caller[c].found.state = OPEN

(***************************************************************************)
(* Claims about the retry path of the task, checked under Spec.            *)
(***************************************************************************)
\* str(exc) of an attempt that ended in the exception handler for the cause.
RaisedMessage(cause) ==
    IF cause = "storage" THEN StorageErrorMessage
    ELSE IF cause = "missing_score" THEN MissingScoreMessage
    ELSE "CVEvaluationRequest matching query does not exist."

\* Retry messages of job j that the broker still holds.
RetryScheduled(j) == {m \in Scheduled(j) : m.retries > 0}

C23_UnknownIdIsNoOp ==
    \A j \in JobIds :
        attempts[j].response = "no submission" =>
            /\ ~jobs[j].exists
            /\ RetryScheduled(j) = {}
            /\ attempts[j].published <= 1

(***************************************************************************)
(* Claims about the job's timestamps, checked under Spec.                  *)
(***************************************************************************)
\* C24: every status transition the worker writes (to Processing, to
\* Completed, to Failed) sets updated_at again, so that updated_at is never
\* older than the latest status change.
C24_UpdatedAtRefreshed ==
    [][\A j \in JobIds :
          (jobs[j].exists /\ jobs'[j].status # jobs[j].status) =>
              jobs'[j].updated_at > jobs[j].updated_at]_vars

(***************************************************************************)
(* Claims about the parser of the AI client, checked under SpecClient.     *)
(***************************************************************************)
\* The call's completion has a rationale with a JSON block that holds its
\* own score and matches, and its outer object parses at the first attempt.
NestedEvaluation ==
    /\ probe.fn = "_openrouter_evaluation"
    /\ probe.done
    /\ probe.input.kind = "completion"
    /\ probe.input.completion.rationale = "block"
    /\ ~probe.input.completion.nested.none
    /\ {"score", "matches"} \subseteq probe.input.completion.nested.keys
    /\ ~(probe.input.completion.fenced /\ probe.input.completion.prose)

\* C25: when the rationale of the parsed outer object embeds a JSON block
\* with its own score and matches, the result takes score, matches and gaps
\* from the nested object and keeps every other field of the outer object:
\* a result that has every required field between the two objects, with a
\* numeric nested score, is returned with all of them.
C25_NestedMergedOverOuter ==
    LET outer == probe.input.completion.obj
        nested == probe.input.completion.nested
    IN  (NestedEvaluation /\ nested.numeric
            /\ AllFields \subseteq (outer.keys \cup nested.keys)) =>
            /\ ~probe.output.raised
            /\ probe.output.result.keys = outer.keys \cup nested.keys
            /\ probe.output.result.score = nested.score

(***************************************************************************)
(* Claims about the backoff of the re-attempts, checked under Spec.        *)
(***************************************************************************)
\* The delays of the re-attempts after 0, 1 and 2 consumed retries.
Backoff == <<60, 120, 240>>

\* C26: the re-attempt scheduled after a failed attempt that had consumed n
\* retries (n = 0, 1, 2) is due 60 * 2^n seconds later: 60, 120 and 240
\* seconds, each twice the one before.
C26_BackoffDoubles ==
    /\ \A n \in 2..Len(Backoff) : Backoff[n] = 2 * Backoff[n - 1]
    /\ [][\A w \in Workers :
            (worker[w].pc = "retry" /\ worker'[w].pc = "idle") =>
                \A m \in queue' \ queue :
                    /\ m.id = worker[w].id
                    /\ worker[w].retries \in 0..(max_retries - 1)
                    /\ m.retries = worker[w].retries + 1
                    /\ m.eta = now + Backoff[worker[w].retries + 1]]_vars

\* The third re-attempt was just scheduled, 240 seconds ahead, after the
\* first two had waited 60 and 120 seconds.
C26_Witness ==
    \E j \in JobIds : \E m \in Scheduled(j) :
        /\ m.retries = max_retries
        /\ m.eta = now + 240
        /\ now = 60 + 120
        /\ attempts[j].n = max_retries

(***************************************************************************)
(* Claims about which failures are retried, checked under Spec.            *)
(***************************************************************************)
\* Why an attempt ended with an error payload of the orchestrator, and why
\* with an exception raised in the task itself.
PayloadCauses == {"extraction", "circuit_open", "ai_timeout", "ai_error", "malformed"}
WorkerCauses == {"lookup", "storage", "missing_score"}

\* C27: an attempt whose orchestrator returned an error payload (extraction
\* failed, or the AI client failed for any reason) is final: the job is
\* stored Failed with that message and score 0.0 and nothing is scheduled;
\* re-attempts are scheduled only by attempts that ended with an exception
\* raised in the task itself.
C27_ErrorPayloadIsFinal ==
    /\ [][\A w \in Workers :
            (Ends(w) /\ worker[w].cause \in PayloadCauses) =>
                /\ jobs'[worker[w].id].status = STATUS_FAILED
                /\ jobs'[worker[w].id].error_message = Some(worker[w].result.error)
                /\ worker[w].result.error # ""
                /\ jobs'[worker[w].id].score = Some(0)
                /\ queue' = queue
                /\ attempts'[worker[w].id].retries = attempts[worker[w].id].retries]_vars
    /\ [][queue' \ queue # {} =>
            \/ \E j \in JobIds : ~jobs[j].exists /\ jobs'[j].exists
            \/ \E w \in Workers : Ends(w) /\ worker[w].cause \in WorkerCauses]_vars
    /\ [](\A j \in JobIds :
            (attempts[j].n > 0 /\ attempts[j].last \in PayloadCauses /\ InFlight(j) = {})
                => Scheduled(j) = {} /\ jobs[j].status = STATUS_FAILED)

\* A job at rest, Failed, after a single attempt on which the AI service
\* timed out: nothing was scheduled for it.
C27_Witness ==
    \E j \in JobIds :
        /\ Quiescent(j)
        /\ attempts[j].n = 1
        /\ attempts[j].last = "ai_timeout"
        /\ RetryCount(j) = 0
        /\ jobs[j].status = STATUS_FAILED
        /\ jobs[j].error_message = Some("AI service timeout")
        /\ jobs[j].score = Some(0)

(***************************************************************************)
(* Claims about what the breaker counts, checked under SpecEval.           *)
(***************************************************************************)
\* The step is a call that ran the wrapped function and ended for this cause.
EvaluationEnds(cause) ==
    /\ probe' # probe
    /\ attempts' = Append(attempts, cause)

C29_CounterRanges ==
    /\ cb.state = CLOSED => cb.failure_count < failure_threshold
    /\ cb.success_count # 0 => cb.state = HALF_OPEN
    /\ cb.success_count >= 0
    /\ cb.success_count < success_threshold

\* A Half-Open breaker one success short of closing, reached while a call
\* let through before the breaker opened is still running.
C29_Witness ==
    /\ cb.state = HALF_OPEN
    /\ cb.success_count = success_threshold - 1
    /\ cb.failure_count = 0
    /\ \E c \in Callers : InFunc(c) /\ caller[c].admitted_in = CLOSED

\* The changes of state the breaker makes.
BreakerTransitions ==
    {<<CLOSED, OPEN>>, <<OPEN, HALF_OPEN>>, <<HALF_OPEN, OPEN>>, <<HALF_OPEN, CLOSED>>}

\* C30: under any interleaving of calls the breaker's state changes only
\* Closed -> Open, Open -> Half-Open, Half-Open -> Open and Half-Open ->
\* Closed; a success recorded while it is Open leaves it Open, and Closed is
\* entered from Half-Open only.
C30_BreakerTransitions ==
    /\ [][cb'.state # cb.state => <<cb.state, cb'.state>> \in BreakerTransitions]_vars
    /\ [][(cb.state = OPEN /\ RecordsSuccess) => cb'.state = OPEN]_vars
    /\ [][(cb.state # CLOSED /\ cb'.state = CLOSED) =>
            cb.state = HALF_OPEN /\ RecordsSuccess]_vars

\* A call let through while the breaker was Closed has returned after the
\* breaker opened: its success found the breaker Open and left it Open.
C30_Witness ==
    /\ cb.state = OPEN
    /\ cb.failure_count = 0
    /\ \E c \in Callers :
          /\ caller[c].pc = "idle"
          /\ caller[c].last = "result"
          /\ caller[c].admitted_in = CLOSED
          /\ caller[c].found.state = OPEN

====
